---- MODULE Spec2Model ----
(***************************************************************************)
(* KYC session service (kyc/backend/app): the in-memory session store      *)
(* (utils/storage.py), the similarity evaluator (utils/matching.py), the   *)
(* challenge verifier (models/challenge_verifier.py) and the request       *)
(* handlers of routers/kyc.py.                                             *)
(*                                                                         *)
(* Scheduling: every handler is an `async def` run by one event loop, so a *)
(* handler runs without interruption from one `await` to the next.  The    *)
(* only `await` in the handlers is `await f.read()` in social_upload       *)
(* (kyc.py:130); every other handler is one atomic step.  A social_upload  *)
(* call is a task that is suspended before each file and resumed later.    *)
(* The state is the store and the suspended tasks; what a handler answers  *)
(* is the resp field of its result.                                        *)
(*                                                                         *)
(* Numbers: scores and distances are in hundredths (One = 1.0).            *)
(* Python None is the empty tuple; an optional scalar v is <<v>>.          *)
(* created_at (a timestamp no handler reads) is left out of the session.   *)
(***************************************************************************)
EXTENDS Integers, Sequences, FiniteSets, TLC

VARIABLES SESSIONS, tasks

vars == <<SESSIONS, tasks>>

----------------------------------------------------------------------------
(* Bounds of the model *)

MaxFrames == 4
MaxFiles == 2
MaxImages == 1
MaxTasks == 1

----------------------------------------------------------------------------
(* Program constants *)

One == 100
MatchThreshold == 33
LivenessThreshold == 80
K == 3

CHALLENGES == <<"blink", "turn_left", "turn_right", "smile", "raise_eyebrows", "touch_nose">>

None == <<>>
Some(v) == <<v>>

----------------------------------------------------------------------------
(* Inputs *)

SessionIds == {"s1"}
RequestIds == SessionIds \cup {"unknown"}

E1 == <<10, 0>>
E2 == <<8, 6>>
E3 == <<-6, 8>>

(* random.sample(CHALLENGES, k=3): k distinct labels of the pool, in order *)
IsSample(seq) ==
    /\ Len(seq) = K
    /\ \A i \in 1..K : \E j \in 1..Len(CHALLENGES) : seq[i] = CHALLENGES[j]
    /\ \A i, j \in 1..K : i # j => seq[i] # seq[j]

StartSequences ==
    { seq \in { <<"touch_nose", "smile", "blink">> } : IsSample(seq) }

(* A submitted image, as the collaborators see it: its file name, whether *)
(* it decodes, the anti-spoof score, whether the document face detector   *)
(* finds a face region, the embedding the extractor yields (None: no      *)
(* face) and whether the extractor raises.                                *)
Image(name, decodes, score, region, emb, raises) ==
    [name |-> name, decodes |-> decodes, score |-> score, region |-> region,
     emb |-> emb, raises |-> raises]

Undecodable == Image("bad.jpg", FALSE, 0, FALSE, None, FALSE)
Crashing == Image("crash.jpg", TRUE, 95, TRUE, None, TRUE)
Face(name, score, emb) == Image(name, TRUE, score, TRUE, emb, FALSE)

(* frames: every failure mode, a frame without a face, a frame with one *)
FrameImages ==
    {Undecodable, Crashing, Face("f0.jpg", 95, None), Face("f1.jpg", 95, E1)}

(* frames with scores on both sides of the liveness threshold *)
ScoredFrameImages ==
    {Undecodable, Crashing}
    \cup {Face("f.jpg", sc, e) : sc \in {80, 95}, e \in {None, E1, E3}}

DocImages ==
    {Undecodable, Crashing, Image("card.jpg", TRUE, 0, FALSE, None, FALSE),
     Face("blur.jpg", 0, None), Face("id2.jpg", 0, E2)}

SocialFiles ==
    {Undecodable, Crashing, Face("a.jpg", 0, E2)}

Reasons == {"", "fraud"}

OcrText == [raw_text |-> "text", full_name |-> None, dob |-> None,
            id_number |-> None, expiration |-> None, nationality |-> None]

(* A social profile page, as requests.get and the two regular expressions *)
(* see it: whether the fetch succeeds, the og:image and og:title found,   *)
(* and the image behind og:image.                                         *)
Profile(url, fetch_ok, pfp_url, title, img) ==
    [url |-> url, fetch_ok |-> fetch_ok, pfp_url |-> pfp_url, title |-> title, img |-> img]

Profiles ==
    {Profile("http://down", FALSE, None, None, Undecodable),
     Profile("http://plain", TRUE, None, None, Undecodable),
     Profile("http://alice", TRUE, Some("http://alice/pfp"), Some("alice"), Face("pfp.jpg", 0, E2))}

----------------------------------------------------------------------------
(* utils/matching.py *)

Dot(a, b) == a[1] * b[1] + a[2] * b[2]

(* np.linalg.norm; the inputs have integer norms, the 1e-8 guard is below *)
(* the resolution of the model                                            *)
Norm(v) == CHOOSE n \in 0..Dot(v, v) : n * n = Dot(v, v)

cosine_similarity(vec1, vec2) ==
    One - ((One * Dot(vec1, vec2)) \div (Norm(vec1) * Norm(vec2)))

(* the comparison read as "more similar is larger" *)
is_match_inverted(similarity) == similarity > MatchThreshold

is_match(similarity) == similarity < MatchThreshold

----------------------------------------------------------------------------
(* models/challenge_verifier.py; the verifier object is its sequence *)

next_action(sequence, index) ==
    IF index >= Len(sequence) THEN "upload_id" ELSE sequence[index + 1]

(* a verifier that repeats the step just taken instead of naming the next *)
verify_step_current(sequence, index) ==
    [passed |-> TRUE, next_action |-> next_action(sequence, index)]

(* a verifier that passes no step beyond the end of the sequence *)
verify_step_capped(sequence, index) ==
    [passed |-> index < Len(sequence), next_action |-> next_action(sequence, index + 1)]

verify_step(sequence, index) ==
    [passed |-> TRUE, next_action |-> next_action(sequence, index + 1)]

----------------------------------------------------------------------------
(* utils/storage.py; a session is a dict, modelled as a function of keys *)

NewSession(challenges) ==
    [status |-> "pending",
     challenges |-> challenges,
     challenge_index |-> 0,
     liveness_scores |-> <<>>,
     id_face_embedding |-> None,
     live_embedding |-> None,
     ocr_text |-> None,
     social_profile_url |-> None,
     social_match_score |-> None,
     social_risk_score |-> None,
     social_status |-> None,
     social_images |-> <<>>]

(* a session created with an enrolled face and no score *)
create_session_enrolled(S, id, challenges) ==
    S @@ (id :> [NewSession(challenges) EXCEPT !.live_embedding = E1])

create_session(S, id, challenges) == S @@ (id :> NewSession(challenges))

get_session(S, id) == IF id \in DOMAIN S THEN S[id] ELSE None

(* dict.get(key, default) *)
Get(d, key, default) == IF key \in DOMAIN d THEN d[key] ELSE default

(* dict.update(kwargs) *)
DictUpdate(d, kwargs) ==
    [k \in DOMAIN d \cup DOMAIN kwargs |-> IF k \in DOMAIN kwargs THEN kwargs[k] ELSE d[k]]

(* an update that creates the session it does not find *)
update_session_upsert(S, id, kwargs) ==
    IF id \in DOMAIN S THEN [S EXCEPT ![id] = DictUpdate(@, kwargs)] ELSE S @@ (id :> kwargs)

update_session(S, id, kwargs) ==
    IF id \in DOMAIN S THEN [S EXCEPT ![id] = DictUpdate(@, kwargs)] ELSE S

append_social_image(S, id, image_meta) ==
    IF id \in DOMAIN S
    THEN [S EXCEPT ![id] = DictUpdate(@, [social_images |->
              Append(Get(@, "social_images", <<>>), image_meta)])]
    ELSE S

----------------------------------------------------------------------------
(* Responses and results *)

Response(op, sid, code, body) == [op |-> op, sid |-> sid, code |-> code, body |-> body]

Error(op, sid, code, detail) == Response(op, sid, code, [detail |-> detail])

NotFound(op, sid) == Error(op, sid, 404, "Session not found")

(* An exception no handler catches: the framework answers 500 *)
Unhandled(op, sid) == Error(op, sid, 500, "Internal Server Error")

(* A task that has not answered yet *)
Pending(op, sid) == Response(op, sid, 0, [detail |-> "suspended"])

(* The result of a handler: the store it leaves and the response it sends *)
Result(S, r) == [S |-> S, resp |-> r]

----------------------------------------------------------------------------
(* routers/kyc.py *)

start_kyc(S, id, sequence) ==
    Result(update_session(create_session(S, id, sequence), id, [verifier |-> sequence]),
           Response("start", id, 200, [session_id |-> id, challenge_sequence |-> sequence]))

(* the score is not recorded *)
frame_scored_dropped(S, sid, liveness_score) == S

(* the list is overwritten with the last score instead of extended *)
frame_scored_replaced(S, sid, liveness_score) ==
    [S EXCEPT ![sid].liveness_scores = <<liveness_score>>]

(* kyc.py:53-54: the anti-spoof score is appended to the session's list *)
frame_scored(S, sid, liveness_score) ==
    [S EXCEPT ![sid].liveness_scores = Append(@, liveness_score)]

(* the cursor skips a step *)
frame_advanced_skip(S, sid, passed) ==
    LET idx == S[sid].challenge_index
        S1 == IF passed THEN [S EXCEPT ![sid].challenge_index = idx + 2] ELSE S
    IN update_session(S1, sid, [challenge_index |-> S1[sid].challenge_index])

(* kyc.py:57-62: the cursor moves on when the step passed *)
frame_advanced(S, sid, passed) ==
    LET idx == S[sid].challenge_index
        S1 == IF passed THEN [S EXCEPT ![sid].challenge_index = idx + 1] ELSE S
    IN update_session(S1, sid, [challenge_index |-> S1[sid].challenge_index])

(* the first embedding is kept and later ones are dropped *)
frame_embedded_first(S, sid, embedding) ==
    IF embedding # None /\ Get(S[sid], "live_embedding", None) = None
    THEN update_session(S, sid, [live_embedding |-> embedding])
    ELSE S

(* kyc.py:65-67: the embedding of the frame, if any, replaces the stored one *)
frame_embedded(S, sid, embedding) ==
    IF embedding # None THEN update_session(S, sid, [live_embedding |-> embedding]) ELSE S

process_frame(S, sid, img) ==
    IF get_session(S, sid) = None THEN Result(S, NotFound("frame", sid))
    ELSE IF ~img.decodes THEN Result(S, Unhandled("frame", sid))
    ELSE
      LET S1 == frame_scored(S, sid, img.score)
          step == verify_step(S1[sid].verifier, S1[sid].challenge_index)
          S2 == frame_advanced(S1, sid, step.passed)
      IN IF img.raises THEN Result(S2, Unhandled("frame", sid))
         ELSE Result(frame_embedded(S2, sid, img.emb),
                     Response("frame", sid, 200,
                         [liveness_score |-> img.score,
                          challenge_passed |-> step.passed,
                          next_action |-> step.next_action]))

id_upload(S, sid, img) ==
    IF get_session(S, sid) = None THEN Result(S, NotFound("id_upload", sid))
    ELSE IF ~img.decodes THEN Result(S, Unhandled("id_upload", sid))
    ELSE IF img.region /\ img.raises THEN Result(S, Unhandled("id_upload", sid))
    ELSE
      LET S1 == IF img.region /\ img.emb # None
                THEN update_session(S, sid, [id_face_embedding |-> img.emb])
                ELSE S
          S2 == update_session(S1, sid, [ocr_text |-> OcrText])
      IN Result(S2, Response("id_upload", sid, 200,
             [extracted_text |-> OcrText,
              id_face_base64 |-> IF img.region THEN Some(img.name) ELSE None]))

Max(seq) == CHOOSE m \in {seq[i] : i \in DOMAIN seq} : \A i \in DOMAIN seq : seq[i] <= m

Min(seq) == CHOOSE m \in {seq[i] : i \in DOMAIN seq} : \A i \in DOMAIN seq : m <= seq[i]

(* a verify that records a failed verdict when an embedding is missing *)
verify_failclosed(S, sid) ==
    LET session == get_session(S, sid) IN
    IF session = None THEN Result(S, NotFound("verify", sid))
    ELSE
      LET live_emb == Get(session, "live_embedding", None)
          id_emb == Get(session, "id_face_embedding", None)
      IN IF live_emb = None \/ id_emb = None
         THEN Result(update_session(S, sid, [status |-> "failed"]),
                     Error("verify", sid, 400, "Missing embeddings"))
         ELSE IF Get(session, "liveness_scores", <<0>>) = <<>>
         THEN Result(S, Unhandled("verify", sid))
         ELSE
           LET sim == cosine_similarity(live_emb, id_emb)
               liveness_score == Max(Get(session, "liveness_scores", <<0>>))
               challenges_done ==
                   Get(session, "challenge_index", 0) >= Len(Get(session, "challenges", <<>>))
               kyc_passed ==
                   liveness_score > LivenessThreshold /\ is_match(sim) /\ challenges_done
           IN Result(update_session(S, sid,
                         [status |-> IF kyc_passed THEN "passed" ELSE "failed",
                          match_score |-> sim,
                          liveness_score |-> liveness_score]),
                     Response("verify", sid, 200,
                         [match_score |-> sim,
                          liveness_score_final |-> liveness_score,
                          kyc_passed |-> kyc_passed]))

verify(S, sid) ==
    LET session == get_session(S, sid) IN
    IF session = None THEN Result(S, NotFound("verify", sid))
    ELSE
      LET live_emb == Get(session, "live_embedding", None)
          id_emb == Get(session, "id_face_embedding", None)
      IN IF live_emb = None \/ id_emb = None
         THEN Result(S, Error("verify", sid, 400, "Missing embeddings"))
         ELSE IF Get(session, "liveness_scores", <<0>>) = <<>>
         THEN Result(S, Unhandled("verify", sid))
         ELSE
           LET sim == cosine_similarity(live_emb, id_emb)
               liveness_score == Max(Get(session, "liveness_scores", <<0>>))
               challenges_done ==
                   Get(session, "challenge_index", 0) >= Len(Get(session, "challenges", <<>>))
               kyc_passed ==
                   liveness_score > LivenessThreshold /\ is_match(sim) /\ challenges_done
           IN Result(update_session(S, sid,
                         [status |-> IF kyc_passed THEN "passed" ELSE "failed",
                          match_score |-> sim,
                          liveness_score |-> liveness_score]),
                     Response("verify", sid, 200,
                         [match_score |-> sim,
                          liveness_score_final |-> liveness_score,
                          kyc_passed |-> kyc_passed]))

(* an approval that only acts on a pending session *)
admin_approve_guarded(S, sid) ==
    Result(IF sid \in DOMAIN S /\ S[sid].status = "pending"
           THEN update_session(S, sid, [status |-> "passed"])
           ELSE S,
           Response("admin_approve", sid, 200, [status |-> "passed"]))

admin_approve(S, sid) ==
    Result(update_session(S, sid, [status |-> "passed"]),
           Response("admin_approve", sid, 200, [status |-> "passed"]))

admin_reject(S, sid, reason) ==
    Result(update_session(S, sid, [status |-> "failed", failure_reason |-> reason]),
           Response("admin_reject", sid, 200, [status |-> "failed", reason |-> reason]))

(* a status lookup that reads the session store *)
status_stored(S, user_id) ==
    Result(S, Response("status", user_id, 200,
        [kyc_status |-> IF user_id \in DOMAIN S THEN S[user_id].status ELSE "pending"]))

status(S, user_id) ==
    Result(S, Response("status", user_id, 200, [kyc_status |-> "pending"]))

(* min(1.0, match_score) *)
MinOne(match_score) == IF One < match_score THEN One ELSE match_score

(* str(uuid.uuid4()): a value no other record carries *)
uuid4(S, sid) == <<sid, Len(Get(S[sid], "social_images", <<>>)) + 1>>

Idle == [pc |-> "idle"]

(* A social_upload suspended in `await f.read()`: the similarities it has  *)
(* collected and the files of its batch it has consumed                   *)
Reading(sid, scores, files) ==
    [pc |-> "read", session_id |-> sid, scores |-> scores, files |-> files]

TaskResult(S, r, task) == [S |-> S, resp |-> r, task |-> task]

(* social_upload up to its first `await f.read()` *)
social_upload_begin(S, session_id) ==
    IF get_session(S, session_id) = None
    THEN TaskResult(S, NotFound("social_upload", session_id), Idle)
    ELSE TaskResult(S, Pending("social_upload", session_id), Reading(session_id, <<>>, <<>>))

(* social_upload from the return of one `await f.read()` to the next, or  *)
(* to the end of the handler when f is the last file (more = FALSE)       *)
social_upload_file(S, task, f, more) ==
    LET session_id == task.session_id
        session == S[session_id]
        usable == f.decodes /\ f.emb # None /\ Get(session, "live_embedding", None) # None
        scores == IF usable
                  THEN Append(task.scores, cosine_similarity(session.live_embedding, f.emb))
                  ELSE task.scores
        S1 == IF f.decodes
              THEN append_social_image(S, session_id,
                       [id |-> uuid4(S, session_id), name |-> f.name])
              ELSE S
        match_score == IF scores # <<>> THEN Min(scores) ELSE One
        risk_score == One - MinOne(match_score)
    IN IF f.decodes /\ f.raises
       THEN TaskResult(S, Unhandled("social_upload", session_id), Idle)
       ELSE IF more
       THEN TaskResult(S1, Pending("social_upload", session_id),
                       Reading(session_id, scores, Append(task.files, f)))
       ELSE TaskResult(update_session(S1, session_id,
                           [social_match_score |-> Some(match_score),
                            social_risk_score |-> Some(risk_score),
                            social_status |-> Some("ok")]),
                       Response("social_upload", session_id, 200,
                           [social_match_score |-> match_score,
                            social_risk_score |-> risk_score,
                            social_status |-> "ok"]),
                       Idle)

(* a social check that fails the session whose profile it has fetched *)
social_check_gating(S, session_id, profile) ==
    IF get_session(S, session_id) = None
    THEN Result(S, NotFound("social_check", session_id))
    ELSE IF ~profile.fetch_ok
    THEN Result(S, Error("social_check", session_id, 400, "Failed to fetch profile"))
    ELSE Result(update_session(S, session_id,
                    [social_profile_url |-> Some(profile.url),
                     social_status |-> Some("ok"),
                     status |-> "failed"]),
                Response("social_check", session_id, 200, [social_status |-> "ok"]))

social_check(S, session_id, profile) ==
    LET session == get_session(S, session_id) IN
    IF session = None THEN Result(S, NotFound("social_check", session_id))
    ELSE IF ~profile.fetch_ok
    THEN Result(S, Error("social_check", session_id, 400, "Failed to fetch profile"))
    ELSE
      LET pfp_url == profile.pfp_url
          username == IF profile.title # None THEN profile.title[1] ELSE profile.url
          img == profile.img
          compared == /\ pfp_url # None
                      /\ img.decodes /\ ~img.raises
                      /\ img.emb # None
                      /\ Get(session, "live_embedding", None) # None
          match_score == IF compared
                         THEN cosine_similarity(session.live_embedding, img.emb)
                         ELSE One
          risk_score == One - MinOne(match_score)
      IN Result(update_session(S, session_id,
                    [social_profile_url |-> Some(profile.url),
                     social_match_score |-> Some(match_score),
                     social_risk_score |-> Some(risk_score),
                     social_status |-> Some("ok")]),
                Response("social_check", session_id, 200,
                    [social_match_score |-> match_score,
                     social_risk_score |-> risk_score,
                     social_status |-> "ok",
                     profile_url |-> profile.url,
                     username |-> username,
                     pfp_url |-> pfp_url]))

----------------------------------------------------------------------------
(* Steps of the event loop *)

Init ==
    /\ SESSIONS = << >>
    /\ tasks = [t \in 1..MaxTasks |-> Idle]

(* An atomic handler: runs from the request to the response *)
Handle(result) ==
    /\ SESSIONS' = result.S
    /\ UNCHANGED tasks

Start(id, sequence) ==
    /\ id \notin DOMAIN SESSIONS
    /\ Handle(start_kyc(SESSIONS, id, sequence))

Frame(sid, img) ==
    /\ sid \in DOMAIN SESSIONS => Len(SESSIONS[sid].liveness_scores) < MaxFrames
    /\ Handle(process_frame(SESSIONS, sid, img))

IdUpload(sid, img) == Handle(id_upload(SESSIONS, sid, img))

Verify(sid) == Handle(verify(SESSIONS, sid))

AdminApprove(sid) == Handle(admin_approve(SESSIONS, sid))

AdminReject(sid, reason) == Handle(admin_reject(SESSIONS, sid, reason))

Status(user_id) == Handle(status(SESSIONS, user_id))

SocialCheck(sid, profile) == Handle(social_check(SESSIONS, sid, profile))

(* A social_upload request arrives and runs to its first await *)
SocialUploadBegin(t, sid) ==
    /\ tasks[t] = Idle
    /\ \A u \in 1..(t - 1) : tasks[u] # Idle
    /\ LET r == social_upload_begin(SESSIONS, sid)
       IN /\ SESSIONS' = r.S
          /\ tasks' = [tasks EXCEPT ![t] = r.task]

(* The event loop resumes a suspended social_upload with the file read *)
SocialUploadResume(t, f, more, maxImages) ==
    /\ tasks[t] # Idle
    /\ more => Len(tasks[t].files) + 1 < MaxFiles
    /\ (f.decodes /\ ~f.raises) =>
           Len(SESSIONS[tasks[t].session_id].social_images) < maxImages
    /\ LET r == social_upload_file(SESSIONS, tasks[t], f, more)
       IN /\ SESSIONS' = r.S
          /\ tasks' = [tasks EXCEPT ![t] = r.task]

SocialUploadRead(t, f, more) == SocialUploadResume(t, f, more, MaxImages)

(* The files a suspended upload reads in Spec are the ones that decode;   *)
(* SpecSocial reads the skipped ones as well                              *)
DecodableFiles == {f \in SocialFiles : f.decodes}

(* Every endpoint of the router, each with every outcome of its          *)
(* collaborators (decode failure, no face, a face, an extractor that      *)
(* raises), interleaved with suspended social_upload tasks                *)
Next ==
    \/ \E id \in SessionIds, sequence \in StartSequences : Start(id, sequence)
    \/ \E sid \in RequestIds, img \in FrameImages : Frame(sid, img)
    \/ \E sid \in RequestIds, img \in DocImages : IdUpload(sid, img)
    \/ \E sid \in RequestIds : Verify(sid)
    \/ \E sid \in RequestIds : AdminApprove(sid)
    \/ \E sid \in RequestIds, reason \in Reasons : AdminReject(sid, reason)
    \/ \E user_id \in RequestIds : Status(user_id)
    \/ \E sid \in RequestIds, profile \in Profiles : SocialCheck(sid, profile)
    \/ \E t \in 1..MaxTasks, sid \in RequestIds : SocialUploadBegin(t, sid)
    \/ \E t \in 1..MaxTasks, f \in DecodableFiles, more \in BOOLEAN : SocialUploadRead(t, f, more)

Spec == Init /\ [][Next]_vars

(* The verification pipeline alone, with liveness scores on both sides of *)
(* the threshold and documents of two different faces                     *)
NextPipeline ==
    \/ \E id \in SessionIds, sequence \in StartSequences : Start(id, sequence)
    \/ \E sid \in RequestIds, img \in ScoredFrameImages : Frame(sid, img)
    \/ \E sid \in RequestIds, img \in DocImages \cup {Face("id3.jpg", 0, E3)} : IdUpload(sid, img)
    \/ \E sid \in RequestIds : Verify(sid)
    \/ \E sid \in RequestIds : AdminApprove(sid)
    \/ \E sid \in RequestIds, reason \in Reasons : AdminReject(sid, reason)
    \/ \E user_id \in RequestIds : Status(user_id)

SpecPipeline == Init /\ [][NextPipeline]_vars

(* Social uploads alone, with one request more in flight than Spec allows *)
(* and batches whose images can be told apart by name                     *)
BatchFiles == SocialFiles \cup {Face("b.jpg", 0, None)}

MaxBatchImages == MaxImages + 2

InitSocial ==
    /\ SESSIONS = << >>
    /\ tasks = [t \in 1..(MaxTasks + 1) |-> Idle]

SocialUploadBatch(t, f, more) == SocialUploadResume(t, f, more, MaxBatchImages)

NextSocial ==
    \/ \E id \in SessionIds, sequence \in StartSequences : Start(id, sequence)
    \/ \E t \in 1..(MaxTasks + 1), sid \in RequestIds : SocialUploadBegin(t, sid)
    \/ \E t \in 1..(MaxTasks + 1), f \in BatchFiles, more \in BOOLEAN :
           SocialUploadBatch(t, f, more)

SpecSocial == InitSocial /\ [][NextSocial]_vars

----------------------------------------------------------------------------
(* Properties *)

AllFrameImages == FrameImages \cup ScoredFrameImages

(* C1: in every reachable state the cursor of every session lies between  *)
(* 0 and the length of the session's challenge sequence.                   *)
C1_CursorWithinSequence ==
    \A sid \in DOMAIN SESSIONS :
        /\ 0 <= SESSIONS[sid].challenge_index
        /\ SESSIONS[sid].challenge_index <= Len(SESSIONS[sid].challenges)

(* C2: the cursor is 0 in a new session, no step decreases it or moves it *)
(* by more than one, and a frame call that reports its step as passed     *)
(* moves it by exactly one.                                               *)
C2_CursorAdvancesByOne ==
    /\ [](\A sid \in DOMAIN SESSIONS : \A img \in AllFrameImages :
            LET r == process_frame(SESSIONS, sid, img)
            IN (r.resp.code = 200 /\ r.resp.body.challenge_passed) =>
                   r.S[sid].challenge_index = SESSIONS[sid].challenge_index + 1)
    /\ [][\A sid \in DOMAIN SESSIONS' :
            IF sid \in DOMAIN SESSIONS
            THEN \/ SESSIONS'[sid].challenge_index = SESSIONS[sid].challenge_index
                 \/ SESSIONS'[sid].challenge_index = SESSIONS[sid].challenge_index + 1
            ELSE SESSIONS'[sid].challenge_index = 0]_vars

(* three frames after start: the cursor is at 3 *)
C2_Witness ==
    \E sid \in DOMAIN SESSIONS :
        /\ SESSIONS[sid].challenge_index = 3
        /\ Len(SESSIONS[sid].liveness_scores) = 3

(* C3: when verify returns a verdict, kyc_passed is true exactly when the *)
(* best liveness score exceeds 0.8, the distance of the two embeddings is *)
(* below 0.33 and the cursor has reached the end of the sequence; the     *)
(* status it persists is passed in that case and failed otherwise.        *)
C3_VerdictIffAllThree ==
    \A sid \in DOMAIN SESSIONS :
        LET s == SESSIONS[sid]
            r == verify(SESSIONS, sid)
            all == /\ \E i \in DOMAIN s.liveness_scores : s.liveness_scores[i] > 80
                   /\ cosine_similarity(s.live_embedding, s.id_face_embedding) < 33
                   /\ s.challenge_index >= Len(s.challenges)
        IN r.resp.code = 200 =>
               /\ r.resp.body.kyc_passed <=> all
               /\ r.S[sid].status = IF all THEN "passed" ELSE "failed"

(* verify has passed a session on which the three conditions hold *)
C3_Witness ==
    \E sid \in DOMAIN SESSIONS :
        LET s == SESSIONS[sid]
        IN /\ s.status = "passed"
           /\ "match_score" \in DOMAIN s /\ s.match_score < 33
           /\ s.liveness_score > 80
           /\ s.challenge_index >= 3
           /\ "failure_reason" \notin DOMAIN s
           /\ verify(SESSIONS, sid).resp.body.kyc_passed

(* C4: verify on a session that lacks one of the two embeddings answers   *)
(* the "Missing embeddings" client error and leaves the store as it was.  *)
C4_MissingEmbeddingsRejected ==
    \A sid \in DOMAIN SESSIONS :
        (SESSIONS[sid].live_embedding = None \/ SESSIONS[sid].id_face_embedding = None) =>
            LET r == verify(SESSIONS, sid)
            IN /\ r.resp.code = 400
               /\ r.resp.body.detail = "Missing embeddings"
               /\ r.S = SESSIONS

(* a pending session with a live embedding and a document without a face *)
C4_Witness ==
    \E sid \in DOMAIN SESSIONS :
        /\ SESSIONS[sid].live_embedding # None
        /\ SESSIONS[sid].id_face_embedding = None
        /\ SESSIONS[sid].ocr_text # None
        /\ SESSIONS[sid].status = "pending"
        /\ "match_score" \notin DOMAIN SESSIONS[sid]
        /\ verify(SESSIONS, sid).resp.code = 400

(* C5: once both embeddings of a session are set, verify answers with a   *)
(* verdict: no prerequisite error and no unhandled exception.             *)
C5_VerifyAlwaysAnswers ==
    \A sid \in DOMAIN SESSIONS :
        (SESSIONS[sid].live_embedding # None /\ SESSIONS[sid].id_face_embedding # None) =>
            LET r == verify(SESSIONS, sid)
            IN /\ r.resp.code = 200
               /\ r.resp.body.kyc_passed \in BOOLEAN

(* verify has answered on a session with both embeddings *)
C5_Witness ==
    \E sid \in DOMAIN SESSIONS :
        /\ SESSIONS[sid].live_embedding # None
        /\ SESSIONS[sid].id_face_embedding # None
        /\ "match_score" \in DOMAIN SESSIONS[sid]
        /\ SESSIONS[sid].status = "failed"

(* C6: once the status of a session is passed or failed, no frame,        *)
(* document-upload, verify or social call changes it.                     *)
C6_StatusTerminal ==
    \A sid \in DOMAIN SESSIONS :
        LET st == SESSIONS[sid].status
        IN st \in {"passed", "failed"} =>
            /\ verify(SESSIONS, sid).S[sid].status = st
            /\ \A img \in FrameImages : process_frame(SESSIONS, sid, img).S[sid].status = st
            /\ \A img \in DocImages : id_upload(SESSIONS, sid, img).S[sid].status = st
            /\ \A profile \in Profiles : social_check(SESSIONS, sid, profile).S[sid].status = st
            /\ \A f \in SocialFiles, more \in BOOLEAN :
                   social_upload_file(SESSIONS, Reading(sid, <<>>, <<>>), f, more).S[sid].status = st

(* C7: every operation that takes a session id answers not-found for an   *)
(* id that is not in the store.                                           *)
C7_UnknownSessionNotFound ==
    \A sid \in RequestIds \ DOMAIN SESSIONS :
        /\ \A img \in FrameImages : process_frame(SESSIONS, sid, img).resp.code = 404
        /\ \A img \in DocImages : id_upload(SESSIONS, sid, img).resp.code = 404
        /\ verify(SESSIONS, sid).resp.code = 404
        /\ social_upload_begin(SESSIONS, sid).resp.code = 404
        /\ \A profile \in Profiles : social_check(SESSIONS, sid, profile).resp.code = 404
        /\ admin_approve(SESSIONS, sid).resp.code = 404
        /\ \A reason \in Reasons : admin_reject(SESSIONS, sid, reason).resp.code = 404

(* C8: on an existing session in any state, approve sets the status to    *)
(* passed and changes nothing else, reject sets it to failed and stores   *)
(* the reason and changes nothing else, and a second identical override   *)
(* leaves the store as the first one left it.                             *)
C8_OverrideIdempotent ==
    \A sid \in DOMAIN SESSIONS :
        /\ LET a == admin_approve(SESSIONS, sid)
           IN /\ a.resp.code = 200
              /\ a.S[sid].status = "passed"
              /\ a.S = [SESSIONS EXCEPT ![sid].status = "passed"]
              /\ admin_approve(a.S, sid).S = a.S
        /\ \A reason \in Reasons :
             LET b == admin_reject(SESSIONS, sid, reason)
             IN /\ b.resp.code = 200
                /\ b.S[sid].status = "failed"
                /\ b.S[sid].failure_reason = reason
                /\ \A k \in DOMAIN SESSIONS[sid] \ {"status", "failure_reason"} :
                       b.S[sid][k] = SESSIONS[sid][k]
                /\ admin_reject(b.S, sid, reason).S = b.S

(* a session approved before any frame or document, then rejected once *)
C8_Witness ==
    \E sid \in DOMAIN SESSIONS :
        /\ SESSIONS[sid].status = "passed"
        /\ SESSIONS[sid].challenge_index = 0
        /\ SESSIONS[sid].live_embedding = None
        /\ "failure_reason" \in DOMAIN SESSIONS[sid]
        /\ SESSIONS[sid].failure_reason = "fraud"

(* C9: whatever else runs in between, every completed frame call adds its *)
(* score at the end of the list and one to the cursor, and no other step  *)
(* touches either: n completed frame calls leave n more scores and a      *)
(* cursor n higher.                                                       *)
C9_NoLostFrameUpdate ==
    /\ [](\A sid \in DOMAIN SESSIONS : \A img \in AllFrameImages :
            LET r == process_frame(SESSIONS, sid, img)
            IN r.resp.code = 200 =>
                 /\ r.S[sid].challenge_index = SESSIONS[sid].challenge_index + 1
                 /\ r.S[sid].liveness_scores = SESSIONS[sid].liveness_scores \o <<img.score>>)
    /\ [][\A sid \in DOMAIN SESSIONS :
            LET old == SESSIONS[sid]
                new == SESSIONS'[sid]
            IN \/ /\ new.challenge_index = old.challenge_index
                  /\ new.liveness_scores = old.liveness_scores
               \/ /\ new.challenge_index = old.challenge_index + 1
                  /\ Len(new.liveness_scores) = Len(old.liveness_scores) + 1
                  /\ SubSeq(new.liveness_scores, 1, Len(old.liveness_scores))
                         = old.liveness_scores]_vars

(* two frames have completed and every upload slot holds a suspended     *)
(* upload, one of them after it has stored an image                      *)
C9_Witness ==
    \E sid \in DOMAIN SESSIONS :
        /\ \A t \in 1..MaxTasks : tasks[t] # Idle /\ tasks[t].session_id = sid
        /\ \E t \in 1..MaxTasks : Len(tasks[t].files) = 1
        /\ SESSIONS[sid].social_images # <<>>
        /\ SESSIONS[sid].challenge_index = 2
        /\ Len(SESSIONS[sid].liveness_scores) = 2

(* C10: a step of a handler that ends with the handler suspended, where   *)
(* other requests run before it resumes, has written nothing to the store *)
C10_NoPartialUpdateObservable ==
    [][(\E t \in 1..MaxTasks : tasks'[t] # Idle /\ tasks'[t] # tasks[t])
          => SESSIONS' = SESSIONS]_vars

(* C11: a frame, document-upload, social-check or social-upload step that *)
(* ends in a failure leaves the store exactly as it found it.             *)
C11_FailureLeavesStateUnchanged ==
    \A sid \in DOMAIN SESSIONS :
        /\ \A img \in FrameImages :
             LET r == process_frame(SESSIONS, sid, img)
             IN r.resp.code # 200 => r.S = SESSIONS
        /\ \A img \in DocImages :
             LET r == id_upload(SESSIONS, sid, img)
             IN r.resp.code # 200 => r.S = SESSIONS
        /\ \A profile \in Profiles :
             LET r == social_check(SESSIONS, sid, profile)
             IN r.resp.code # 200 => r.S = SESSIONS
        /\ \A t \in DOMAIN tasks, f \in SocialFiles :
             tasks[t] # Idle =>
               LET r == social_upload_file(SESSIONS, tasks[t], f, FALSE)
               IN r.resp.code # 200 => r.S = SESSIONS

(* C12: a social upload of one image answers and stores a match score    *)
(* equal to the similarity 1 - distance(live_embedding, image embedding)  *)
(* when the image decodes, yields an embedding and a live embedding       *)
(* exists, and 1.0 otherwise; the risk score is 1 - min(1, match score)   *)
(* and lies in [0, 1].                                                    *)
C12_MatchIsMinSimilarity ==
    \A sid \in DOMAIN SESSIONS : \A f \in SocialFiles :
        LET r == social_upload_file(SESSIONS, Reading(sid, <<>>, <<>>), f, FALSE)
            live == Get(SESSIONS[sid], "live_embedding", None)
            usable == f.decodes /\ f.emb # None /\ live # None
            expected == IF usable THEN One - cosine_similarity(live, f.emb) ELSE One
        IN r.resp.code = 200 =>
             /\ r.resp.body.social_match_score = expected
             /\ r.S[sid].social_match_score = Some(expected)
             /\ r.resp.body.social_risk_score = One - MinOne(expected)
             /\ r.S[sid].social_risk_score = Some(One - MinOne(expected))
             /\ r.resp.body.social_risk_score \in 0..One

(* C13: when a social upload completes, the image list ends with one     *)
(* record for each decodable image of its batch, in submission order.     *)
C13_BatchAppendedInOrder ==
    \A t \in DOMAIN tasks : \A f \in BatchFiles :
        tasks[t] # Idle =>
          LET r == social_upload_file(SESSIONS, tasks[t], f, FALSE)
              batch == Append(tasks[t].files, f)
              accepted == SelectSeq(batch, LAMBDA x : x.decodes)
              images == r.S[tasks[t].session_id].social_images
              k == Len(accepted)
          IN r.resp.code = 200 =>
               /\ k <= Len(images)
               /\ \A i \in 1..k : images[Len(images) - k + i].name = accepted[i].name

(* C14: a frame call that answers on a session with sequence s and       *)
(* cursor i reports the step as passed and names s[i+1] (counting from 0)  *)
(* as the next action when i+1 < len(s) and the sentinel "upload_id"      *)
(* otherwise; after a sentinel the same frame sent again names it too.     *)
C14_NextActionFollowsSequence ==
    \A sid \in DOMAIN SESSIONS : \A img \in AllFrameImages :
        LET s == SESSIONS[sid].challenges
            i == SESSIONS[sid].challenge_index
            r == process_frame(SESSIONS, sid, img)
        IN r.resp.code = 200 =>
             /\ r.resp.body.challenge_passed
             /\ r.resp.body.next_action =
                    IF i + 1 < Len(s) THEN s[i + 2] ELSE "upload_id"
             /\ r.resp.body.next_action = "upload_id" =>
                    process_frame(r.S, sid, img).resp.body.next_action = "upload_id"

(* a session whose frames have walked the whole sequence: the last frame  *)
(* named the sentinel and so does the next one                            *)
C14_Witness ==
    \E sid \in DOMAIN SESSIONS :
        /\ SESSIONS[sid].challenge_index = Len(SESSIONS[sid].challenges)
        /\ SESSIONS[sid].live_embedding # None
        /\ process_frame(SESSIONS, sid, Face("f1.jpg", 95, E1)).resp.body.next_action
               = "upload_id"

(* C15: for every id and every state of the store, the status lookup     *)
(* answers 'pending' and leaves the store as it is.                       *)
C15_StatusLookupDecoupled ==
    \A user_id \in RequestIds :
        LET r == status(SESSIONS, user_id)
        IN /\ r.resp.code = 200
           /\ r.resp.body = [kyc_status |-> "pending"]
           /\ r.S = SESSIONS

(* a session that verify has passed still reads as pending *)
C15_Witness ==
    \E sid \in DOMAIN SESSIONS :
        /\ SESSIONS[sid].status = "passed"
        /\ status(SESSIONS, sid).resp.body.kyc_status = "pending"

(* C16: after a frame call that answers, live_embedding is the frame's   *)
(* embedding if the extractor yielded one and is what it was otherwise;   *)
(* and a step that changes a session's live_embedding is a frame call     *)
(* whose extractor yielded the new value.                                 *)
C16_LiveEmbeddingMostRecentWins ==
    /\ [](\A sid \in DOMAIN SESSIONS : \A img \in AllFrameImages :
            LET r == process_frame(SESSIONS, sid, img)
            IN r.S[sid].live_embedding =
                   IF r.resp.code = 200 /\ img.emb # None
                   THEN img.emb
                   ELSE SESSIONS[sid].live_embedding)
    /\ [][\A sid \in DOMAIN SESSIONS :
            SESSIONS'[sid].live_embedding # SESSIONS[sid].live_embedding =>
              \E img \in AllFrameImages :
                  /\ img.emb = SESSIONS'[sid].live_embedding
                  /\ SESSIONS' = process_frame(SESSIONS, sid, img).S]_vars

(* a session that already holds a live embedding, other operations have   *)
(* run on it, and a frame of another face would replace the embedding     *)
C16_Witness ==
    \E sid \in DOMAIN SESSIONS :
        /\ SESSIONS[sid].live_embedding = E1
        /\ SESSIONS[sid].id_face_embedding # None
        /\ SESSIONS[sid].social_status # None
        /\ process_frame(SESSIONS, sid, Face("f3.jpg", 95, E3)).S[sid].live_embedding = E3

(* C17: start creates the session with status pending, and a step that   *)
(* changes the status or the failure_reason of an existing session is a   *)
(* verify, an admin-approve or an admin-reject of that session.           *)
C17_StatusWrittenByVerdictOnly ==
    /\ [](\A id \in SessionIds \ DOMAIN SESSIONS : \A sequence \in StartSequences :
            start_kyc(SESSIONS, id, sequence).S[id].status = "pending")
    /\ [][\A sid \in DOMAIN SESSIONS :
            LET old == SESSIONS[sid]
                new == SESSIONS'[sid]
                same_reason ==
                    /\ ("failure_reason" \in DOMAIN new) = ("failure_reason" \in DOMAIN old)
                    /\ "failure_reason" \in DOMAIN old =>
                           new.failure_reason = old.failure_reason
            IN ~(new.status = old.status /\ same_reason) =>
                 \/ SESSIONS' = verify(SESSIONS, sid).S
                 \/ SESSIONS' = admin_approve(SESSIONS, sid).S
                 \/ \E reason \in Reasons : SESSIONS' = admin_reject(SESSIONS, sid, reason).S]_vars

(* a session that both social operations have scored as a risk and that   *)
(* is still pending                                                       *)
C17_Witness ==
    \E sid \in DOMAIN SESSIONS :
        /\ SESSIONS[sid].status = "pending"
        /\ SESSIONS[sid].social_profile_url # None
        /\ SESSIONS[sid].social_images # <<>>
        /\ SESSIONS[sid].social_risk_score = Some(80)

(* C18: for an id that is not in the store, get finds nothing and update *)
(* and append_social_image leave the store as it is; and a step never     *)
(* removes a session id and adds one only by a start that creates it.     *)
C18_UnknownIdIsNoOp ==
    /\ [](\A id \in RequestIds \ DOMAIN SESSIONS :
            /\ get_session(SESSIONS, id) = None
            /\ \A kwargs \in {[status |-> "passed"],
                              [status |-> "failed", failure_reason |-> "fraud"],
                              [live_embedding |-> E1]} :
                  update_session(SESSIONS, id, kwargs) = SESSIONS
            /\ append_social_image(SESSIONS, id, [id |-> <<id, 1>>, name |-> "a.jpg"])
                   = SESSIONS)
    /\ [][/\ DOMAIN SESSIONS \subseteq DOMAIN SESSIONS'
          /\ DOMAIN SESSIONS' # DOMAIN SESSIONS =>
               \E id \in SessionIds \ DOMAIN SESSIONS : \E sequence \in StartSequences :
                   /\ SESSIONS' = start_kyc(SESSIONS, id, sequence).S
                   /\ DOMAIN SESSIONS' = DOMAIN SESSIONS \cup {id}]_vars

(* a store that holds a session on which a verdict has been recorded and  *)
(* in which an override for an unknown id finds nothing to change         *)
C18_Witness ==
    /\ DOMAIN SESSIONS = SessionIds
    /\ \E sid \in DOMAIN SESSIONS : SESSIONS[sid].status = "failed"
    /\ "unknown" \notin DOMAIN SESSIONS
    /\ admin_approve(SESSIONS, "unknown").S = SESSIONS

(* C19: in every reachable state the cursor of every session equals the  *)
(* number of liveness scores it holds, and a step that changes either is  *)
(* a frame call on that session.                                          *)
C19_CursorCountsScores ==
    /\ [](\A sid \in DOMAIN SESSIONS :
            SESSIONS[sid].challenge_index = Len(SESSIONS[sid].liveness_scores))
    /\ [][\A sid \in DOMAIN SESSIONS :
            (\/ SESSIONS'[sid].challenge_index # SESSIONS[sid].challenge_index
             \/ SESSIONS'[sid].liveness_scores # SESSIONS[sid].liveness_scores) =>
              \E img \in AllFrameImages :
                  /\ SESSIONS' = process_frame(SESSIONS, sid, img).S
                  /\ SESSIONS'[sid].challenge_index = SESSIONS[sid].challenge_index + 1
                  /\ Len(SESSIONS'[sid].liveness_scores) =
                         Len(SESSIONS[sid].liveness_scores) + 1]_vars

(* a session that has taken more frames than its sequence has steps and   *)
(* on which the other operations have run                                 *)
C19_Witness ==
    \E sid \in DOMAIN SESSIONS :
        /\ Len(SESSIONS[sid].liveness_scores) = Len(SESSIONS[sid].challenges) + 1
        /\ SESSIONS[sid].challenge_index = Len(SESSIONS[sid].challenges) + 1
        /\ SESSIONS[sid].ocr_text # None
        /\ "match_score" \in DOMAIN SESSIONS[sid]

(* C20: in every reachable state a session whose live_embedding is set   *)
(* holds at least one liveness score, so a verify that finds both         *)
(* embeddings answers with a verdict and a final liveness score.          *)
C20_EmbeddingImpliesScore ==
    \A sid \in DOMAIN SESSIONS :
        /\ SESSIONS[sid].live_embedding # None => SESSIONS[sid].liveness_scores # <<>>
        /\ (SESSIONS[sid].live_embedding # None /\ SESSIONS[sid].id_face_embedding # None) =>
               LET r == verify(SESSIONS, sid)
               IN /\ r.resp.code = 200
                  /\ r.resp.body.liveness_score_final = Max(SESSIONS[sid].liveness_scores)

(* a session with one scored frame that gave an embedding, a document     *)
(* face, and no verdict yet                                               *)
C20_Witness ==
    \E sid \in DOMAIN SESSIONS :
        /\ SESSIONS[sid].live_embedding # None
        /\ SESSIONS[sid].id_face_embedding # None
        /\ Len(SESSIONS[sid].liveness_scores) = 1
        /\ "liveness_score" \notin DOMAIN SESSIONS[sid]
        /\ verify(SESSIONS, sid).resp.code = 200

====
